---- MODULE Spec2Model ----
(***************************************************************************)
(* A model of parler/singleformadmin.py (django-parler, single-form admin): *)
(* the metaclass that injects per-language form fields, the form mixin that *)
(* loads and saves per-language values, the admin class factory, and the    *)
(* _parler_meta registry the model-construction tests describe.             *)
(*                                                                          *)
(* Python values are modelled as follows.  A dict is a function whose       *)
(* DOMAIN is its key set; a tuple or list is a sequence; a name built with  *)
(* str.format is the string built with \o.  Python semantics are those of   *)
(* Python 2, which the module is written for (singleformadmin.py line 100   *)
(* subscripts the list that zip() returns).                                 *)
(***************************************************************************)
EXTENDS Integers, Sequences, FiniteSets, TLC

VARIABLES
    \* django.conf.settings / parler.appsettings
    SITE_ID,            \* settings.SITE_ID
    PARLER_LANGUAGES,   \* appsettings.PARLER_LANGUAGES: site id -> tuple of language dicts
    \* TranslatableModelFormMetaclass.__new__(mcs, name, bases, attrs)
    form_model,         \* form_model._parler_meta.get_all_models(): sequence of translation models
    attrs,              \* the class body dict
    Meta,               \* attrs['Meta']: the options the metaclass reads and rewrites
    form_bases,         \* what the base classes hold: [base_fields, placeholders]
    form_pc,            \* "declared" before __new__, then "created" or the exception raised
    \* TranslatableModelFormMixin: a form bound to a model instance
    translations,       \* the instance's translation objects: [meta index][language code]
    current_language,   \* instance.get_current_language()
    active_language,    \* django.utils.translation.get_language()
    form_kwargs,        \* the keyword arguments of the form: [instance, initial]
    initial,            \* form.initial
    cleaned_data,       \* form.cleaned_data
    mixin_pc,           \* "new", "initialised" (after __init__), "cleaned" (after full_clean)
    \* TranslatableAdmin.translated_for_model(cls, model)
    admin_cls,          \* the admin class the factory is called on: [fields, form]
    admin_model,        \* model._parler_meta.get_all_models()
    admin_result,       \* the class returned, or the exception raised
    \* the model classes defined so far, each with its _parler_meta registry
    models

vars == << SITE_ID, PARLER_LANGUAGES, form_model, attrs, Meta, form_bases,
           form_pc, translations, current_language, active_language, form_kwargs,
           initial, cleaned_data, mixin_pc, admin_cls, admin_model, admin_result, models >>

settingsVars == << SITE_ID, PARLER_LANGUAGES >>
formVars == << form_model, attrs, Meta, form_bases, form_pc >>
mixinVars == << translations, current_language, active_language, form_kwargs,
                initial, cleaned_data, mixin_pc >>
adminVars == << admin_cls, admin_model, admin_result >>
registryVars == << models >>

-----------------------------------------------------------------------------
(* Bounds of the model *)

\* longest PARLER_LANGUAGES entry drawn for the configured site
MaxLangs == 2
\* longest explicit Meta.fields / ModelAdmin.fields tuple drawn
MaxFields == 2
\* most translation objects an instance has stored when its form is constructed
MaxStored == 2
\* most per-language values a validated form holds in cleaned_data
MaxCleaned == 2
\* most model classes defined
MaxModels == 4
\* most translation sources one model class declares itself
MaxOwn == 2

(* Program constants *)

\* the site id that PARLER_LANGUAGES configures (startests.py: SITE_ID = 4)
ConfiguredSite == 4
\* a site id with no PARLER_LANGUAGES entry
OtherSite == ConfiguredSite + 1
\* language codes of startests.py PARLER_LANGUAGES
Codes == {"nl", "de", "en"}
\* appsettings.PARLER_DEFAULT_LANGUAGE_CODE (defaults to LANGUAGE_CODE = 'en')
PARLER_DEFAULT_LANGUAGE_CODE == "en"

None == "None"

\* sequences over S without repetition, of length lo..hi
SeqsNoDup(S, lo, hi) ==
    UNION { { s \in [1..n -> S] : \A i, j \in 1..n : i # j => s[i] # s[j] } : n \in lo..hi }

InSeq(x, s) == \E i \in 1..Len(s) : s[i] = x

\* the PARLER_LANGUAGES values drawn: one configured site, 1..MaxLangs languages
LanguageSettings ==
    { [s \in {ConfiguredSite} |-> [i \in 1..Len(cs) |-> [code |-> cs[i]]]] :
        cs \in SeqsNoDup(Codes, 1, MaxLangs) }

SettingsInit ==
    /\ SITE_ID \in {ConfiguredSite, OtherSite}
    /\ PARLER_LANGUAGES \in LanguageSettings

\* the settings of startests.py
SettingsTests ==
    /\ SITE_ID = ConfiguredSite
    /\ PARLER_LANGUAGES = [s \in {ConfiguredSite} |-> << [code |-> "nl"], [code |-> "de"], [code |-> "en"] >>]

-----------------------------------------------------------------------------
(* Module-level helpers of singleformadmin.py *)

\* fields.index(name): position of the first occurrence
index(fields, name) ==
    CHOOSE i \in 1..Len(fields) :
        fields[i] = name /\ \A j \in 1..(i - 1) : fields[j] # name

replace_field(fields, name, replacement) ==
    SubSeq(fields, 1, index(fields, name) - 1)
        \o replacement
        \o SubSeq(fields, index(fields, name) + 1, Len(fields))

get_available_language_codes ==
    LET lang_dicts == IF SITE_ID \in DOMAIN PARLER_LANGUAGES
                      THEN PARLER_LANGUAGES[SITE_ID] ELSE << >>
    IN  [i \in 1..Len(lang_dicts) |-> lang_dicts[i].code]

\* '{}_{}'.format(name, code)
format_name(name, code) == name \o "_" \o code

\* list of (code, '<name>_<code>') pairs
get_translated_fields_names(name) ==
    [i \in 1..Len(get_available_language_codes) |->
        << get_available_language_codes[i],
           format_name(name, get_available_language_codes[i]) >>]

get_default_language == PARLER_DEFAULT_LANGUAGE_CODE

-----------------------------------------------------------------------------
(* TranslatableModelFormMetaclass: form class construction *)

\* Meta.fields is unset, None, '__all__' or a tuple of names
FieldsUnset == [kind |-> "Unset", list |-> << >>]
FieldsNone == [kind |-> "None", list |-> << >>]
FieldsAll == [kind |-> "All", list |-> << >>]
FieldsList(names) == [kind |-> "List", list |-> names]

\* names a form's Meta.fields may list: one plain model field and the translated ones
FormFieldNames == {"published", "title", "slug", "body"}

\* form_model._parler_meta.get_all_models() of the models drawn: a model with one
\* translation model, and one with two; 'slug' may be declared editable=False
ArticleTranslation(noneditable) ==
    [name |-> "ArticleTranslation", fields |-> << "title", "slug" >>,
     noneditable |-> noneditable]
ExtraTranslation ==
    [name |-> "ExtraTranslation", fields |-> << "body" >>, noneditable |-> {}]
FormModels ==
    UNION { { << ArticleTranslation(ne) >>, << ArticleTranslation(ne), ExtraTranslation >> } :
            ne \in { {}, {"slug"} } }

\* get_translated_fields() of a translation model
get_translated_fields(translations_model) == translations_model.fields

\* _meta of the base class TranslatableModelForm: ModelFormOptions without a Meta
form_meta == [model |-> None, fields |-> FieldsNone, exclude |-> {}, widgets |-> {}]

\* a class attribute: a TranslatedField placeholder, a generated form field, or
\* anything else the class body declares
Placeholder(kwargs) ==
    [kind |-> "TranslatedField", source |-> << None, None >>, language_code |-> None,
     required |-> FALSE, label |-> None, kwargs |-> kwargs]
Declared ==
    [kind |-> "Declared", source |-> << None, None >>, language_code |-> None,
     required |-> FALSE, label |-> None, kwargs |-> {}]

\* parler.forms._get_model_form_field(model, name, formfield_callback, **kwargs):
\* the form field Django builds for the model field
get_model_form_field(translations_model, f_name, kwargs) ==
    [kind |-> "FormField", source |-> << translations_model.name, f_name >>,
     language_code |-> None, required |-> FALSE, label |-> f_name, kwargs |-> kwargs]

\* lines 105-112: one form field per (code, t_name), stored under t_name in order
store_translated_fields(attrs0, translations_model, f_name, kwargs) ==
    LET names == get_translated_fields_names(f_name)
        last(n) == CHOOSE i \in 1..Len(names) :
                       names[i][2] = n /\ \A j \in (i + 1)..Len(names) : names[j][2] # n
        formfield(code) ==
            [get_model_form_field(translations_model, f_name, kwargs) EXCEPT
                !.required = (code = get_default_language),
                !.label = f_name \o " (" \o code \o ")",
                !.language_code = code]
        added == { names[i][2] : i \in 1..Len(names) }
    IN  [n \in DOMAIN attrs0 \cup added |->
            IF n \in added THEN formfield(names[last(n)][1]) ELSE attrs0[n]]

\* lines 64-112: the body of the loop over get_translated_fields(), for f_name.
\* st is [attrs, fields, exc]: the class dict, form_new_meta.fields and the
\* exception raised so far; fields is the local read once at line 53.
handle_field(st, translations_model, f_name, fields, exclude, widgets, bases, translated_fields) ==
    IF st.exc # None THEN st
    ELSE IF f_name \in translated_fields
    THEN \* line 70: translated_fields is a list, subscripted with a field name
         [st EXCEPT !.exc = "TypeError"]
    ELSE IF /\ f_name \notin bases.base_fields
            /\ (fields.kind = "None" \/ InSeq(f_name, fields.list))
            /\ f_name \notin exclude
            /\ f_name \notin DOMAIN st.attrs
    THEN LET kwargs == (IF f_name \in widgets THEN {"widget"} ELSE {})
                          \cup (IF f_name \in bases.placeholders
                                THEN {"placeholder"} ELSE {})
             translated_fields_names == get_translated_fields_names(f_name)
             replacement == [i \in 1..Len(translated_fields_names) |->
                                translated_fields_names[i][2]]
         IN  IF f_name \in translations_model.noneditable THEN st
             ELSE IF fields.kind # "None" /\ translated_fields_names = << >>
             THEN \* line 100: zip(*[]) is [], and [][1] raises
                  [st EXCEPT !.exc = "IndexError"]
             ELSE [st EXCEPT
                     !.fields = IF fields.kind # "None"
                                THEN FieldsList(replace_field(fields.list, f_name,
                                                              replacement))
                                ELSE @,
                     !.attrs = store_translated_fields(@, translations_model,
                                                       f_name, kwargs)]
    ELSE st

RECURSIVE handle_fields(_, _, _, _, _, _, _, _)
handle_fields(st, translations_model, f_names, fields, exclude, widgets, bases, translated_fields) ==
    IF f_names = << >> THEN st
    ELSE handle_fields(
             handle_field(st, translations_model, Head(f_names), fields, exclude,
                          widgets, bases, translated_fields),
             translations_model, Tail(f_names), fields, exclude, widgets, bases,
             translated_fields)

\* _handle_translation_model(bases, attrs, translations_model, form_new_meta,
\*                           form_meta, form_bases, translated_fields)
handle_translation_model(st, translations_model, form_new_meta, bases, translated_fields) ==
    LET fields0 == IF st.fields.kind = "Unset" THEN form_meta.fields ELSE st.fields
        fields == IF fields0.kind = "All" THEN FieldsNone ELSE fields0
    IN  handle_fields(st, translations_model,
                      get_translated_fields(translations_model), fields,
                      form_new_meta.exclude, form_new_meta.widgets, bases,
                      translated_fields)

RECURSIVE handle_translation_models(_, _, _, _, _)
handle_translation_models(st, translations_models, form_new_meta, bases, translated_fields) ==
    IF translations_models = << >> THEN st
    ELSE handle_translation_models(
             handle_translation_model(st, Head(translations_models), form_new_meta,
                                      bases, translated_fields),
             Tail(translations_models), form_new_meta, bases, translated_fields)

\* TranslatableModelFormMetaclass.__new__, up to the call of create_cls()
metaclass_new(attrs0, form_new_meta, translations_models, bases) ==
    LET translated_fields ==
            { f_name \in DOMAIN attrs0 : attrs0[f_name].kind = "TranslatedField" }
        st0 == [attrs |-> attrs0, fields |-> form_new_meta.fields, exc |-> None]
    IN  IF form_new_meta.model = None THEN st0
        ELSE handle_translation_models(st0, translations_models, form_new_meta,
                                       bases, translated_fields)

\* the class bodies drawn: 'title' absent or a placeholder, 'slug' absent or declared
ClassBodies ==
    { [n \in T \cup S |-> IF n \in T THEN Placeholder({"placeholder"}) ELSE Declared] :
        T \in SUBSET {"title"}, S \in SUBSET {"slug"} }

\* the Meta classes drawn: for the model Article any fields, exclude and widgets
\* options, and a Meta that names no model
Metas ==
    { [model |-> "Article", fields |-> f, exclude |-> e, widgets |-> w] :
        f \in {FieldsUnset, FieldsNone, FieldsAll}
                 \cup { FieldsList(l) : l \in SeqsNoDup(FormFieldNames, 0, MaxFields) },
        e \in { {}, {"slug"} },
        w \in { {}, {"title"} } }
      \cup { [model |-> None, fields |-> FieldsUnset, exclude |-> {}, widgets |-> {}] }

\* the base classes drawn: TranslatableModelForm itself, a base that declares a
\* form field 'body', a model-less base that declares a placeholder for 'slug'
Bases ==
    { [base_fields |-> {}, placeholders |-> {}],
      [base_fields |-> {"body"}, placeholders |-> {}],
      [base_fields |-> {}, placeholders |-> {"slug"}] }

FormInit ==
    /\ Meta \in Metas
    /\ form_model \in (IF Meta.model = None THEN { << >> } ELSE FormModels)
    /\ attrs \in ClassBodies
    /\ form_bases \in Bases
    /\ form_pc = "declared"

FormIdle ==
    /\ form_model = << >>
    /\ attrs = << >>
    /\ Meta = form_meta
    /\ form_bases = [base_fields |-> {}, placeholders |-> {}]
    /\ form_pc = "idle"

\* class X(TranslatableModelForm): ... is executed
FormClassNew ==
    /\ form_pc = "declared"
    /\ LET st == metaclass_new(attrs, Meta, form_model, form_bases)
       IN  /\ attrs' = st.attrs
           /\ Meta' = [Meta EXCEPT !.fields = st.fields]
           /\ form_pc' = IF st.exc = None THEN "created" ELSE st.exc
    /\ UNCHANGED << form_model, form_bases >>
    /\ UNCHANGED << settingsVars, mixinVars, adminVars, registryVars >>

-----------------------------------------------------------------------------
(* TranslatableModelFormMixin: a form of a translatable model instance *)

\* instance._parler_meta of the instance the form edits: the Article model
parler_meta == << ArticleTranslation({}), ExtraTranslation >>

\* every translated field of the instance
TranslatedFieldNames ==
    UNION { { parler_meta[m].fields[i] : i \in 1..Len(parler_meta[m].fields) } :
            m \in 1..Len(parler_meta) }

\* a field of a translation object that was never assigned (the model default)
Unset == "<unset>"
\* no translation object exists for the language
NoTranslation == [exists |-> FALSE, values |-> << >>]
\* a translation object loaded from the database, for meta and language code
Stored(meta, code) ==
    [exists |-> TRUE,
     values |-> [f \in { meta.fields[i] : i \in 1..Len(meta.fields) } |->
                    "db " \o format_name(f, code)]]

\* instance._get_translated_model(meta=meta, language_code=code) raises
\* TranslationDoesNotExist when there is none (no fallback, no auto_create)
get_translated_model(trans, m, code) == trans[m][code]

\* instance.set_current_language(code)
set_current_language(inst, code) == [inst EXCEPT !.current_language = code]

\* setattr(instance, field, value) for the translated field `field` of meta m: the
\* descriptor writes to the translation of the current language, creating it first
instance_setattr(inst, m, field, value) ==
    LET code == inst.current_language
        old == inst.translations[m][code]
        fresh == [exists |-> TRUE,
                  values |-> [f \in { parler_meta[m].fields[i] :
                                        i \in 1..Len(parler_meta[m].fields) } |-> Unset]]
        row == IF old.exists THEN old ELSE fresh
    IN  [inst EXCEPT !.translations[m][code] =
                        [row EXCEPT !.values[field] = value]]

\* the (meta, field) pairs in the order the loops of lines 170-172 and 191-193 visit
RECURSIVE fields_from(_, _)
fields_from(m, i) ==
    IF m > Len(parler_meta) THEN << >>
    ELSE IF i > Len(get_translated_fields(parler_meta[m])) THEN fields_from(m + 1, 1)
    ELSE << << m, get_translated_fields(parler_meta[m])[i] >> >> \o fields_from(m, i + 1)

get_all_translated_fields_names == fields_from(1, 1)

\* init_codes without the try/except of lines 175-179: the first missing
\* translation ends the loop
RECURSIVE init_codes_uncaught(_, _, _, _, _)
init_codes_uncaught(initial0, trans, m, field, names) ==
    IF names = << >> THEN initial0
    ELSE LET code == Head(names)[1]
             code_field == Head(names)[2]
             translation == get_translated_model(trans, m, code)
         IN  IF ~translation.exists THEN initial0
             ELSE init_codes_uncaught(
                      IF code_field \in DOMAIN initial0 THEN initial0
                      ELSE initial0 @@ (code_field :> translation.values[field]),
                      trans, m, field, Tail(names))

\* lines 174-182, for one field: the loop over the languages
RECURSIVE init_codes(_, _, _, _, _)
init_codes(initial0, trans, m, field, names) ==
    IF names = << >> THEN initial0
    ELSE LET code == Head(names)[1]
             code_field == Head(names)[2]
             translation == get_translated_model(trans, m, code)
         IN  init_codes(
                 IF ~translation.exists THEN initial0
                 ELSE IF code_field \in DOMAIN initial0 THEN initial0
                 ELSE initial0 @@ (code_field :> translation.values[field]),
                 trans, m, field, Tail(names))

RECURSIVE init_fields(_, _, _)
init_fields(initial0, trans, fields) ==
    IF fields = << >> THEN initial0
    ELSE init_fields(
             init_codes(initial0, trans, Head(fields)[1], Head(fields)[2],
                        get_translated_fields_names(Head(fields)[2])),
             trans, Tail(fields))

\* TranslatableModelFormMixin.__init__: kwargs is [instance, initial]; ModelForm
\* leaves the caller's initial values in self.initial
form_init(kwargs, trans) ==
    IF ~kwargs.instance THEN kwargs.initial
    ELSE init_fields(kwargs.initial, trans, fields_from(1, 1))

\* dict(_get_translated_fields_names(field))[code]
code_field_of(field, code) ==
    LET names == get_translated_fields_names(field)
        i == CHOOSE i \in 1..Len(names) :
                 names[i][1] = code /\ \A j \in (i + 1)..Len(names) : names[j][1] # code
    IN  names[i][2]

\* lines 198-205: the loop over the fields, for one language
RECURSIVE save_fields(_, _, _, _)
save_fields(inst, cd, code, fields) ==
    IF fields = << >> THEN inst
    ELSE LET m == Head(fields)[1]
             field == Head(fields)[2]
             code_field == code_field_of(field, code)
         IN  save_fields(
                 IF code_field \notin DOMAIN cd THEN inst
                 ELSE instance_setattr(inst, m, field, cd[code_field]),
                 cd, code, Tail(fields))

\* save_codes without line 197: the instance is never switched to the language
RECURSIVE save_codes_unswitched(_, _, _)
save_codes_unswitched(inst, cd, codes) ==
    IF codes = << >> THEN inst
    ELSE save_codes_unswitched(
             save_fields(inst, cd, Head(codes), get_all_translated_fields_names),
             cd, Tail(codes))

\* lines 196-205: the loop over the languages
RECURSIVE save_codes(_, _, _)
save_codes(inst, cd, codes) ==
    IF codes = << >> THEN inst
    ELSE save_codes(
             save_fields(set_current_language(inst, Head(codes)), cd, Head(codes),
                         get_all_translated_fields_names),
             cd, Tail(codes))

\* TranslatableModelFormMixin.save_translated_fields; get_language is the value of
\* django.utils.translation.get_language()
save_translated_fields(inst, cd, get_language) ==
    set_current_language(save_codes(inst, cd, get_available_language_codes),
                         get_language)

\* the names of the per-language form fields of the configured languages
CodeFieldNames ==
    { format_name(f, get_available_language_codes[i]) :
        f \in TranslatedFieldNames, i \in 1..Len(get_available_language_codes) }

\* the instances drawn: up to MaxStored stored translation objects, of any
\* translation model and language
Instances ==
    { [m \in 1..Len(parler_meta) |->
          [c \in Codes |-> IF << m, c >> \in E THEN Stored(parler_meta[m], c)
                           ELSE NoTranslation]] :
        E \in { E \in SUBSET ((1..Len(parler_meta)) \X Codes) :
                    Cardinality(E) <= MaxStored } }

\* the instance ModelForm creates when it is given none
NewInstance == [m \in 1..Len(parler_meta) |-> [c \in Codes |-> NoTranslation]]

\* initial values the caller passes: any of the per-language names of 'title'
CallerInitials ==
    { [n \in K |-> "caller " \o n] :
        K \in SUBSET { format_name("title", c) : c \in Codes } }

\* cleaned values of a validated form: up to MaxCleaned of its per-language fields
CleanedDatas ==
    { [n \in K |-> "new " \o n] :
        K \in { K \in SUBSET CodeFieldNames : Cardinality(K) <= MaxCleaned } }

\* languages django.utils.translation may have active
ActiveLanguages == {"en", "nl"}

\* a form is about to be constructed for an instance, or for none: ModelForm then
\* creates the instance itself
MixinInit ==
    /\ active_language \in ActiveLanguages
    /\ current_language = active_language
    /\ form_kwargs \in [instance : BOOLEAN, initial : CallerInitials]
    /\ translations \in (IF form_kwargs.instance THEN Instances ELSE {NewInstance})
    /\ initial = << >>
    /\ cleaned_data = << >>
    /\ mixin_pc = "new"

\* form = Form(instance=instance, initial=...)
FormInitCall ==
    /\ mixin_pc = "new"
    /\ initial' = form_init(form_kwargs, translations)
    /\ mixin_pc' = "initialised"
    /\ UNCHANGED << translations, current_language, active_language, form_kwargs, cleaned_data >>
    /\ UNCHANGED << settingsVars, formVars, adminVars, registryVars >>

\* form.full_clean(): cleaned_data is filled, then _post_clean runs
\* save_translated_fields before Django's own _post_clean
PostClean ==
    /\ mixin_pc = "initialised"
    /\ \E cd \in CleanedDatas :
        LET inst == save_translated_fields(
                        [translations |-> translations,
                         current_language |-> current_language],
                        cd, active_language)
        IN  /\ cleaned_data' = cd
            /\ translations' = inst.translations
            /\ current_language' = inst.current_language
    /\ mixin_pc' = "cleaned"
    /\ UNCHANGED << active_language, form_kwargs, initial >>
    /\ UNCHANGED << settingsVars, formVars, adminVars, registryVars >>

\* the view or the admin switches the instance to another language
SetCurrentLanguage ==
    /\ mixin_pc \in {"new", "initialised"}
    /\ \E code \in Codes :
        /\ code # current_language
        /\ current_language' = code
    /\ UNCHANGED << translations, active_language, form_kwargs, initial, cleaned_data, mixin_pc >>
    /\ UNCHANGED << settingsVars, formVars, adminVars, registryVars >>

-----------------------------------------------------------------------------
(* TranslatableAdmin.translated_for_model *)

\* ModelAdmin.fields is None unless the admin class sets it
AdminClasses ==
    { [fields |-> f, form |-> form] :
        f \in {FieldsNone} \cup { FieldsList(l) : l \in SeqsNoDup(FormFieldNames, 0, MaxFields) },
        form \in {"TranslatableModelForm", "ArticleForm"} }

NotCalled == [kind |-> "none", bases |-> << >>, fields |-> FieldsNone, form |-> None]

\* lines 228-233: the loop over get_translated_fields(), for f_name; st is
\* [fields, exc]
admin_field(st, f_name) ==
    IF st.exc # None THEN st
    ELSE IF st.fields.kind = "None"
    THEN \* line 229: `f_name not in None`
         [st EXCEPT !.exc = "TypeError"]
    ELSE IF ~InSeq(f_name, st.fields.list) THEN st
    ELSE LET names == [i \in 1..Len(get_translated_fields_names(f_name)) |->
                          get_translated_fields_names(f_name)[i][2]]
         IN  [st EXCEPT !.fields = FieldsList(replace_field(@.list, f_name, names))]

RECURSIVE admin_fields(_, _)
admin_fields(st, f_names) ==
    IF f_names = << >> THEN st
    ELSE admin_fields(admin_field(st, Head(f_names)), Tail(f_names))

RECURSIVE admin_models(_, _)
admin_models(st, translations_models) ==
    IF translations_models = << >> THEN st
    ELSE admin_models(admin_fields(st, get_translated_fields(Head(translations_models))), Tail(translations_models))

\* django.forms.models.modelform_factory(model, form)
modelform_factory(model, form) == "modelform_factory(" \o model \o ", " \o form \o ")"

translated_for_model(cls, translations_models) ==
    LET st == admin_models([fields |-> cls.fields, exc |-> None], translations_models)
        form == IF cls.form = "TranslatableModelForm"
                THEN modelform_factory("Article", cls.form) ELSE cls.form
    IN  IF st.exc # None
        THEN [kind |-> st.exc, bases |-> << >>, fields |-> FieldsNone, form |-> None]
        ELSE [kind |-> "class", bases |-> << "cls" >>, fields |-> st.fields, form |-> form]

AdminInit ==
    /\ admin_cls \in AdminClasses
    /\ admin_model \in FormModels
    /\ admin_result = NotCalled

\* SomeAdmin.translated_for_model(Article)
TranslatedForModel ==
    /\ admin_result = NotCalled
    /\ admin_result' = translated_for_model(admin_cls, admin_model)
    /\ UNCHANGED << admin_cls, admin_model >>
    /\ UNCHANGED << settingsVars, formVars, mixinVars, registryVars >>

-----------------------------------------------------------------------------
(* The _parler_meta registry (parler.models.ParlerOptions), as the tests of  *)
(* tests/test_model_construction.py describe it.  A model class is          *)
(* [parent, proxy, base, extensions, inherited]: parent is the index of the *)
(* class it inherits from (0: none), base the index of the class whose      *)
(* registry its registry chains from (0: None), extensions the ParlerMeta   *)
(* entries [shared_model, translations_name] its registry lists.            *)

ParlerMeta(shared_model, k) == [shared_model |-> shared_model, translations_name |-> << shared_model, k >>]

\* ParlerOptions that does not take over the entries of its base
ParlerOptions_unchained(parent, proxy, cls) ==
    [parent |-> parent, proxy |-> proxy, base |-> parent,
     extensions |-> << ParlerMeta(cls, 1) >>, inherited |-> FALSE]

\* ParlerOptions(base, shared_model, ...): a first translation source of a class
ParlerOptions(parent, proxy, cls) ==
    [parent |-> parent, proxy |-> proxy, base |-> parent,
     extensions |-> (IF parent = 0 THEN << >> ELSE models[parent].extensions)
                        \o << ParlerMeta(cls, 1) >>,
     inherited |-> FALSE]

\* ParlerOptions.add_meta(meta): a further translation source of the same class
add_meta(options, cls) ==
    [options EXCEPT !.extensions = @ \o << ParlerMeta(cls, Len(@) + 1) >>]

\* ParlerOptions.root, root_model and root_translations_name
root(options) == options.extensions[1]

\* class X(TranslatableModel) with translations = TranslatedFields(...)
DefineModel ==
    /\ Len(models) < MaxModels
    /\ models' = Append(models, ParlerOptions(0, FALSE, Len(models) + 1))
    /\ UNCHANGED << settingsVars, formVars, mixinVars, adminVars >>

\* class Y(X) with its own TranslatedFields, as a multi-table child or as a proxy
DefineChild ==
    /\ Len(models) < MaxModels
    /\ \E parent \in 1..Len(models), proxy \in BOOLEAN :
        models' = Append([models EXCEPT ![parent].inherited = TRUE],
                         ParlerOptions(parent, proxy, Len(models) + 1))
    /\ UNCHANGED << settingsVars, formVars, mixinVars, adminVars >>

\* a second TranslatedFields attribute in the body of a class that inherits no
\* translations (DoubleModel): the class is still being defined, so it is the
\* last one and nothing inherits from it
AddTranslations ==
    /\ models # << >>
    /\ LET cls == Len(models)
       IN  /\ models[cls].parent = 0
           /\ ~models[cls].inherited
           /\ Len(models[cls].extensions) < MaxOwn
           /\ models' = [models EXCEPT ![cls] = add_meta(@, cls)]
    /\ UNCHANGED << settingsVars, formVars, mixinVars, adminVars >>

-----------------------------------------------------------------------------
(* Idle values of the parts a specification does not exercise *)

MixinIdle ==
    /\ translations = << >>
    /\ current_language = None
    /\ active_language = None
    /\ form_kwargs = << >>
    /\ initial = << >>
    /\ cleaned_data = << >>
    /\ mixin_pc = "idle"

AdminIdle ==
    /\ admin_cls = [fields |-> FieldsNone, form |-> None]
    /\ admin_model = << >>
    /\ admin_result = NotCalled

RegistryIdle == models = << >>

-----------------------------------------------------------------------------
(* Specifications *)

\* form class construction under every settings value drawn
InitForm == SettingsInit /\ FormInit /\ MixinIdle /\ AdminIdle /\ RegistryIdle
NextForm == FormClassNew
SpecForm == InitForm /\ [][NextForm]_vars

\* a form of an instance is constructed; its initial values are loaded
InitMixinInit == SettingsInit /\ MixinInit /\ FormIdle /\ AdminIdle /\ RegistryIdle
NextMixinInit == FormInitCall
SpecInit == InitMixinInit /\ [][NextMixinInit]_vars

\* a form is constructed, the instance may be switched to another language, and
\* the form is validated once; no initial values are passed
InitSave == InitMixinInit /\ form_kwargs.initial = << >>
NextSave == FormInitCall \/ SetCurrentLanguage \/ PostClean
SpecSave == InitSave /\ [][NextSave]_vars

\* an admin class is specialised for a model
InitAdmin == SettingsInit /\ AdminInit /\ FormIdle /\ MixinIdle /\ RegistryIdle
NextAdmin == TranslatedForModel
SpecAdmin == InitAdmin /\ [][NextAdmin]_vars

\* model classes are defined one after the other
InitRegistry == SettingsTests /\ models = << >> /\ FormIdle /\ MixinIdle /\ AdminIdle
NextRegistry == DefineModel \/ DefineChild \/ AddTranslations
SpecRegistry == InitRegistry /\ [][NextRegistry]_vars

\* every part of the module
Init == InitForm \/ InitMixinInit \/ InitAdmin \/ InitRegistry
Next == NextForm \/ NextSave \/ NextAdmin \/ NextRegistry
Spec == Init /\ [][Next]_vars

-----------------------------------------------------------------------------
(* Properties *)

configured == get_available_language_codes

IsConfigured(code) == InSeq(code, configured)

\* f is a translated field the metaclass is to expand: the conditions of lines
\* 74-77 and 94 on the class as declared
Eligible(translations_model, f) ==
    /\ Meta.model # None
    /\ f \notin form_bases.base_fields
    /\ (Meta.fields.kind \in {"Unset", "None", "All"} \/ InSeq(f, Meta.fields.list))
    /\ f \notin Meta.exclude
    /\ f \notin DOMAIN attrs
    /\ f \notin translations_model.noneditable

EligibleName(f) ==
    \E k \in 1..Len(form_model) :
        InSeq(f, form_model[k].fields) /\ Eligible(form_model[k], f)

FormClassStep == form_pc = "declared" /\ form_pc' # "declared"

\* C1: after TranslatableModelFormMetaclass.__new__ the class attributes hold,
\* for every eligible translatable field f of every translation model and every
\* configured language code, a form field '<f>_<code>' tagged with
\* language_code = code, and no '<f>_<code>' for a code that is not configured.
C1_FieldPerLanguage ==
    [][FormClassStep =>
        \A k \in 1..Len(form_model) : \A j \in 1..Len(form_model[k].fields) :
            LET f == form_model[k].fields[j]
            IN  Eligible(form_model[k], f) =>
                  /\ \A i \in 1..Len(configured) :
                        /\ format_name(f, configured[i]) \in DOMAIN attrs'
                        /\ attrs'[format_name(f, configured[i])].kind = "FormField"
                        /\ attrs'[format_name(f, configured[i])].source = << form_model[k].name, f >>
                        /\ attrs'[format_name(f, configured[i])].language_code = configured[i]
                  /\ \A code \in Codes :
                        ~IsConfigured(code) => format_name(f, code) \notin DOMAIN attrs']_vars

\* the statement of C1 restricted to the constructions that return a class
WhenCreated_FieldPerLanguage ==
    [][FormClassStep /\ form_pc' = "created" =>
        \A k \in 1..Len(form_model) : \A j \in 1..Len(form_model[k].fields) :
            LET f == form_model[k].fields[j]
            IN  Eligible(form_model[k], f) =>
                  /\ \A i \in 1..Len(configured) :
                        /\ format_name(f, configured[i]) \in DOMAIN attrs'
                        /\ attrs'[format_name(f, configured[i])].kind = "FormField"
                        /\ attrs'[format_name(f, configured[i])].source = << form_model[k].name, f >>
                        /\ attrs'[format_name(f, configured[i])].language_code = configured[i]
                  /\ \A code \in Codes :
                        ~IsConfigured(code) => format_name(f, code) \notin DOMAIN attrs']_vars

\* f is declared as a TranslatedField placeholder in the class body and is a
\* translated field of the form's model
IsPlaceholder(f) ==
    /\ f \in DOMAIN attrs
    /\ attrs[f].kind = "TranslatedField"
    /\ \E k \in 1..Len(form_model) : InSeq(f, form_model[k].fields)

\* C2: when the class body declares a translated field f as a TranslatedField
\* placeholder, construction completes without error and the class holds the
\* per-language form fields '<f>_<code>', built with the placeholder's kwargs.
C2_PlaceholderReplaced ==
    [][FormClassStep =>
        \A f \in DOMAIN attrs :
            IsPlaceholder(f) =>
              /\ form_pc' = "created"
              /\ \A i \in 1..Len(configured) :
                    /\ format_name(f, configured[i]) \in DOMAIN attrs'
                    /\ attrs'[format_name(f, configured[i])].kind = "FormField"
                    /\ attrs'[format_name(f, configured[i])].kwargs = attrs[f].kwargs]_vars

\* Meta.fields as the claim describes it after construction: every eligible
\* translated name replaced at its position by its per-language names
RECURSIVE ExpectedFields(_)
ExpectedFields(fields) ==
    IF fields = << >> THEN << >>
    ELSE (IF EligibleName(Head(fields))
          THEN [i \in 1..Len(configured) |-> format_name(Head(fields), configured[i])]
          ELSE << Head(fields) >>) \o ExpectedFields(Tail(fields))

\* C6: when Meta.fields is an explicit list, after form class construction every
\* eligible translated name in it is replaced, at its position, by its
\* per-language names in configured order, no eligible name remains and the
\* other entries keep their order.  Stated for the constructions that return a
\* class: the claim fails there already.
C6_MetaFieldsReplaced ==
    [][FormClassStep /\ form_pc' = "created" /\ Meta.fields.kind = "List" =>
        Meta'.fields = FieldsList(ExpectedFields(Meta.fields.list))]_vars

\* the statement of C6 restricted to classes with at most one eligible listed
\* field per translation model
OneFieldPerModel_MetaFieldsReplaced ==
    [][/\ FormClassStep /\ form_pc' = "created" /\ Meta.fields.kind = "List"
       /\ \A k \in 1..Len(form_model) :
            Cardinality({ j \in 1..Len(form_model[k].fields) :
                            /\ InSeq(form_model[k].fields[j], Meta.fields.list)
                            /\ Eligible(form_model[k], form_model[k].fields[j]) }) <= 1
       => Meta'.fields = FieldsList(ExpectedFields(Meta.fields.list))]_vars

\* the fields of translation model m of the instance
FieldsOf(m) == { parler_meta[m].fields[i] : i \in 1..Len(parler_meta[m].fields) }

\* C4: a form initialised with an instance holds, for every translated field f
\* and configured language c, the caller's initial value for '<f>_<c>' when the
\* caller gave one, else the value of f in the instance's translation in c when
\* that translation exists, and no entry when it does not exist (the missing
\* translation is skipped and the other languages and fields are still loaded);
\* a form initialised without an instance holds the caller's initial values only.
C4_InitialLoaded ==
    mixin_pc = "initialised" =>
        IF ~form_kwargs.instance THEN initial = form_kwargs.initial
        ELSE \A m \in 1..Len(parler_meta) : \A f \in FieldsOf(m) :
                \A i \in 1..Len(configured) :
                    LET code == configured[i]
                        code_field == format_name(f, code)
                    IN  IF code_field \in DOMAIN form_kwargs.initial
                        THEN /\ code_field \in DOMAIN initial
                             /\ initial[code_field] = form_kwargs.initial[code_field]
                        ELSE IF translations[m][code].exists
                        THEN /\ code_field \in DOMAIN initial
                             /\ initial[code_field] = translations[m][code].values[f]
                        ELSE code_field \notin DOMAIN initial

\* C4 happens: a translation missing in one configured language is skipped, a
\* later language of the same field is loaded, and a caller's value is kept
\* where a translation exists
C4_Witness ==
    /\ mixin_pc = "initialised"
    /\ form_kwargs.instance
    /\ \E m \in 1..Len(parler_meta) : \E f \in FieldsOf(m) :
        \E i, j \in 1..Len(configured) :
            /\ i < j
            /\ ~translations[m][configured[i]].exists
            /\ format_name(f, configured[i]) \notin DOMAIN initial
            /\ translations[m][configured[j]].exists
            /\ format_name(f, configured[j]) \notin DOMAIN form_kwargs.initial
            /\ initial[format_name(f, configured[j])] = translations[m][configured[j]].values[f]
    /\ \E code \in Codes :
        /\ IsConfigured(code)
        /\ translations[1][code].exists
        /\ format_name("title", code) \in DOMAIN form_kwargs.initial
        /\ initial[format_name("title", code)] # translations[1][code].values["title"]

\* the value of field f of translation model m in language code: that of the
\* translation object, which is unset while no object exists
value_of(trans, m, f, code) ==
    IF trans[m][code].exists THEN trans[m][code].values[f] ELSE Unset

PostCleanStep == mixin_pc = "initialised" /\ mixin_pc' = "cleaned"

\* C3: after save_translated_fields, for every configured language c and
\* translated field f, the translation in c has f equal to
\* cleaned_data['<f>_<c>'] when that key is present; when it is absent, and in
\* every language that is not configured, the value of f is the one before the
\* call: a value written for one language changes no other language.
C3_ValuesRestored ==
    [][PostCleanStep =>
        \A m \in 1..Len(parler_meta) : \A f \in FieldsOf(m) : \A code \in Codes :
            IF IsConfigured(code) /\ format_name(f, code) \in DOMAIN cleaned_data'
            THEN /\ translations'[m][code].exists
                 /\ translations'[m][code].values[f] = cleaned_data'[format_name(f, code)]
            ELSE value_of(translations', m, f, code) = value_of(translations, m, f, code)]_vars

\* C3 happens: a value was written for one language while the same field keeps
\* its stored value in another configured language whose key is absent
C3_Witness ==
    /\ mixin_pc = "cleaned"
    /\ \E m \in 1..Len(parler_meta) : \E f \in FieldsOf(m) :
        \E i, j \in 1..Len(configured) :
            /\ i # j
            /\ format_name(f, configured[i]) \in DOMAIN cleaned_data
            /\ translations[m][configured[i]].values[f] = cleaned_data[format_name(f, configured[i])]
            /\ format_name(f, configured[j]) \notin DOMAIN cleaned_data
            /\ translations[m][configured[j]] = Stored(parler_meta[m], configured[j])

\* C8: the instance's current language after save_translated_fields is the
\* language it had before the call.
C8_LanguageSwitchedBack ==
    [][PostCleanStep => current_language' = current_language]_vars

\* the statement of C8 for an instance whose language is the active language
ActiveLanguage_SwitchedBack ==
    [][PostCleanStep /\ current_language = active_language =>
        current_language' = current_language]_vars

\* cls.fields as the claim describes the fields of the returned class
RECURSIVE ExpectedAdminFields(_)
ExpectedAdminFields(fields) ==
    IF fields = << >> THEN << >>
    ELSE (IF \E k \in 1..Len(admin_model) : InSeq(Head(fields), admin_model[k].fields)
          THEN [i \in 1..Len(configured) |-> format_name(Head(fields), configured[i])]
          ELSE << Head(fields) >>) \o ExpectedAdminFields(Tail(fields))

\* the class the claim describes
ExpectedAdminClass ==
    /\ admin_result.kind = "class"
    /\ admin_result.bases = << "cls" >>
    /\ admin_result.fields =
          IF admin_cls.fields.kind = "None" THEN FieldsNone
          ELSE FieldsList(ExpectedAdminFields(admin_cls.fields.list))
    /\ admin_result.form =
          IF admin_cls.form = "TranslatableModelForm"
          THEN modelform_factory("Article", "TranslatableModelForm")
          ELSE admin_cls.form

\* C7: translated_for_model(model) returns a new subclass of cls whose fields
\* are cls.fields with every translated field name of the model in it replaced
\* in place by its per-language names, the other names left in place and no
\* name added, and whose form is a model-specific form only when cls.form is
\* TranslatableModelForm.
C7_TranslatedForModel ==
    admin_result # NotCalled => ExpectedAdminClass

\* the statement of C7 for admin classes that set fields
FieldsSet_TranslatedForModel ==
    admin_result # NotCalled /\ admin_cls.fields.kind = "List" => ExpectedAdminClass

\* the class at the top of the inheritance chain of cls
RECURSIVE TopAncestor(_)
TopAncestor(cls) ==
    IF models[cls].parent = 0 THEN cls ELSE TopAncestor(models[cls].parent)

\* C5: the registry of a model that inherits from a translatable model and adds
\* its own translations has one more entry than the parent's, lists the parent's
\* entries first and its own last, and has the parent's root; the root is the
\* first translation source of the top-most ancestor; the registry of a model
\* that inherits nothing has base None and lists the model's own sources only,
\* one entry for each.
C5_RegistryRoot ==
    \A cls \in 1..Len(models) :
        LET options == models[cls]
            n == Len(options.extensions)
        IN  /\ root(options) = ParlerMeta(TopAncestor(cls), 1)
            /\ IF options.parent # 0
               THEN /\ n = Len(models[options.parent].extensions) + 1
                    /\ SubSeq(options.extensions, 1, n - 1) = models[options.parent].extensions
                    /\ options.extensions[n].shared_model = cls
                    /\ root(options) = root(models[options.parent])
               ELSE /\ options.base = 0
                    /\ \A i \in 1..n : options.extensions[i] = ParlerMeta(cls, i)

\* C5 happens: a model with two sources of its own (length 2, base None), a
\* child of it, and a proxy child of that child
C5_Witness ==
    \E a, b, c \in 1..Len(models) :
        /\ models[a].parent = 0 /\ models[a].base = 0 /\ Len(models[a].extensions) = 2
        /\ models[b].parent = a /\ Len(models[b].extensions) = 3
        /\ models[c].parent = b /\ models[c].proxy /\ Len(models[c].extensions) = 4
        /\ root(models[c]) = root(models[a])

====
